---- MODULE Spec2Model ----
(***************************************************************************)
(* A model of FRion/correct.py: the application of an ionospheric Faraday  *)
(* rotation correction to a pair of Stokes Q/U FITS cubes.                 *)
(*                                                                         *)
(* Arrays are records [shape, data]; shape is the numpy shape (a sequence  *)
(* of axis lengths), data maps every index tuple (0-based entries, one per *)
(* axis) to the element stored there.  Axis numbers handed to moveaxis are *)
(* numpy's 0-based axis numbers.                                           *)
(***************************************************************************)
EXTENDS Integers, Sequences, FiniteSets, TLC

VARIABLES pc, err, steps,
          Qfile, Ufile, predictionfile, Qoutfile, Uoutfile, overwrite,
          fs,
          theta, header, Qdata, Udata, Qcorr, Ucorr, output_header,
          freq_axis

vars == <<pc, err, steps, Qfile, Ufile, predictionfile, Qoutfile, Uoutfile,
          overwrite, fs, theta, header, Qdata, Udata, Qcorr, Ucorr,
          output_header, freq_axis>>

\* ------------------------------------------------------------------ bounds
MaxAxes == 3
MaxSize == 2
MaxChan == 2

\* ------------------------------------------------------- small arithmetic
Abs(x) == IF x < 0 THEN -x ELSE x

Max(a, b) == IF a > b THEN a ELSE b

RECURSIVE GCD(_, _)
GCD(a, b) == IF b = 0 THEN a ELSE GCD(b, a % b)

RECURSIVE SeqMax(_)
SeqMax(s) == IF s = <<>> THEN 0 ELSE Max(Head(s), SeqMax(Tail(s)))

\* ------------------------------------------------------------ FITS header
\* An axis label is a sequence of one-character strings.
UpperChar(c) ==
  CASE c = "f" -> "F"
    [] c = "r" -> "R"
    [] c = "e" -> "E"
    [] c = "q" -> "Q"
    [] c = "a" -> "A"
    [] c = "d" -> "D"
    [] c = "c" -> "C"
    [] c = "o" -> "O"
    [] c = "b" -> "B"
    [] c = "s" -> "S"
    [] OTHER -> c

\* str.upper()
upper(s) == [i \in 1..Len(s) |-> UpperChar(s[i])]

\* the Python test  sub in s  on strings
Contains(sub, s) ==
  \E k \in 0..(Len(s) - Len(sub)) : SubSeq(s, k + 1, k + Len(sub)) = sub

FREQ == <<"F", "R", "E", "Q">>

\* variant: the first matching axis is kept
ScanAxisFirst(h, i, found) ==
  IF found # 0 THEN found
  ELSE IF i \in DOMAIN h.CTYPE
       THEN IF Contains(FREQ, upper(h.CTYPE[i])) THEN i ELSE found
       ELSE found

\* body of the loop of find_freq_axis for axis i: a missing CTYPEi raises
\* KeyError, which the bare except swallows
ScanAxis(h, i, found) ==
  IF i \in DOMAIN h.CTYPE
  THEN IF Contains(FREQ, upper(h.CTYPE[i])) THEN i ELSE found
  ELSE found

RECURSIVE ScanFrom(_, _, _)
ScanFrom(h, i, found) ==
  IF i > h.NAXIS THEN found ELSE ScanFrom(h, i + 1, ScanAxis(h, i, found))

find_freq_axis(h) == ScanFrom(h, 1, 0)

\* --------------------------------------------------------------- ndarrays
ndim(a) == Len(a.shape)

IdxSet(shape) ==
  {idx \in [1..Len(shape) -> 0..(SeqMax(shape) - 1)] :
      \A i \in 1..Len(shape) : idx[i] < shape[i]}

\* numpy.moveaxis raises AxisError unless both axes lie in 0..ndim-1
\* (the axes used here are never negative)
AxisOK(a, source, destination) ==
  /\ source \in 0..(ndim(a) - 1)
  /\ destination \in 0..(ndim(a) - 1)

\* order = [n for n in range(a.ndim) if n != source];
\* order.insert(destination, source)
MoveOrder(n, source, destination) ==
  LET Keep(k) == k # source
      rest == SelectSeq([i \in 1..n |-> i - 1], Keep)
  IN  SubSeq(rest, 1, destination) \o <<source>>
        \o SubSeq(rest, destination + 1, n - 1)

\* a.transpose(order): axis i of the result is axis order[i] of a
transpose(a, order) ==
  LET n == ndim(a)
      newshape == [i \in 1..n |-> a.shape[order[i] + 1]]
      Pos(k) == CHOOSE i \in 1..n : order[i] + 1 = k
  IN  [shape |-> newshape,
       data  |-> [idx \in IdxSet(newshape) |->
                    a.data[[k \in 1..n |-> idx[Pos(k)]]]]]

moveaxis(a, source, destination) ==
  transpose(a, MoveOrder(ndim(a), source, destination))

\* numpy broadcasting of two shapes: the shorter one is padded on the left
\* with axes of length 1; two lengths are compatible when equal or one is 1
PadShape(s, n) ==
  [i \in 1..n |-> IF i <= n - Len(s) THEN 1 ELSE s[i - (n - Len(s))]]

BroadcastOK(sa, sb) ==
  LET n  == Max(Len(sa), Len(sb))
      pa == PadShape(sa, n)
      pb == PadShape(sb, n)
  IN  \A i \in 1..n : pa[i] = pb[i] \/ pa[i] = 1 \/ pb[i] = 1

BroadcastShape(sa, sb) ==
  LET n  == Max(Len(sa), Len(sb))
      pa == PadShape(sa, n)
      pb == PadShape(sb, n)
  IN  [i \in 1..n |-> IF pa[i] = 1 THEN pb[i] ELSE pa[i]]

\* the element of an operand of shape s that result index idx reads
BIndex(idx, s) ==
  [i \in 1..Len(s) |->
     IF s[i] = 1 THEN 0 ELSE idx[i + (Len(idx) - Len(s))]]

\* numpy.reshape of a 1-D sequence to shape (len, 1, ..., 1): C order
reshape(seq, newshape) ==
  [shape |-> newshape,
   data  |-> [idx \in IdxSet(newshape) |-> seq[idx[1] + 1]]]

\* ------------------------------------------------------ exact real values
\* A real result is num/den in lowest terms; den = 0 stands for the IEEE
\* results of a division by zero: num 1 is +inf, -1 is -inf, 0 is NaN.
Sign(x) == IF x > 0 THEN 1 ELSE IF x < 0 THEN -1 ELSE 0

Frac(n, d) ==
  LET g == GCD(Abs(n), d)
  IN  [num |-> n \div g, den |-> d \div g]

\* complex division (p.re + i p.im) / (t.re + i t.im) as true_divide does it
cdiv(p, t) ==
  IF t.re = 0 /\ t.im = 0
  THEN [re |-> [num |-> Sign(p.re), den |-> 0],
        im |-> [num |-> Sign(p.im), den |-> 0]]
  ELSE LET d == t.re * t.re + t.im * t.im
       IN  [re |-> Frac(p.re * t.re + p.im * t.im, d),
            im |-> Frac(p.im * t.re - p.re * t.im, d)]

\* ---------------------------------------------------------- correct_cubes
\* variant: Q and U exchanged
PdataSwapped(Q, U) ==
  LET s == BroadcastShape(Q.shape, U.shape)
  IN  [shape |-> s,
       data  |-> [idx \in IdxSet(s) |->
                    [re |-> U.data[BIndex(idx, U.shape)],
                     im |-> Q.data[BIndex(idx, Q.shape)]]]]

\* Pdata = Qdata + 1.j*Udata
Pdata(Q, U) ==
  LET s == BroadcastShape(Q.shape, U.shape)
  IN  [shape |-> s,
       data  |-> [idx \in IdxSet(s) |->
                    [re |-> Q.data[BIndex(idx, Q.shape)],
                     im |-> U.data[BIndex(idx, U.shape)]]]]

\* variant: the channels laid along the last axis
arrshapeLast(P, th) == [i \in 1..ndim(P) |-> IF i = ndim(P) THEN Len(th) ELSE 1]

\* arrshape: one entry per axis of Pdata, all 1 except the first
arrshape(P, th) == [i \in 1..ndim(P) |-> IF i = 1 THEN Len(th) ELSE 1]

\* the operands of true_divide broadcast together
DivideOK(Q, U, th) ==
  /\ BroadcastOK(Q.shape, U.shape)
  /\ BroadcastOK(BroadcastShape(Q.shape, U.shape),
                 arrshape(Pdata(Q, U), th))

Pcorr(Q, U, th) ==
  LET P  == Pdata(Q, U)
      T  == reshape(th, arrshape(P, th))
      s  == BroadcastShape(P.shape, T.shape)
  IN  [shape |-> s,
       data  |-> [idx \in IdxSet(s) |->
                    cdiv(P.data[BIndex(idx, P.shape)],
                         T.data[BIndex(idx, T.shape)])]]

real(A) == [shape |-> A.shape, data |-> [idx \in DOMAIN A.data |-> A.data[idx].re]]

imag(A) == [shape |-> A.shape, data |-> [idx \in DOMAIN A.data |-> A.data[idx].im]]

correct_cubes(Q, U, th) ==
  [Qcorr |-> real(Pcorr(Q, U, th)), Ucorr |-> imag(Pcorr(Q, U, th))]

\* -------------------------------------------------------- read_prediction
\* a prediction file is a sequence of rows <<frequency, real, imag>>
read_prediction(rows) ==
  [frequencies |-> [i \in 1..Len(rows) |-> rows[i][1]],
   theta       |-> [i \in 1..Len(rows) |-> [re |-> rows[i][2], im |-> rows[i][3]]]]

\* --------------------------------------------------------------- readData
\* the condition of line 123
NeedsMove(h) ==
  find_freq_axis(h) # 0 /\ find_freq_axis(h) # h.NAXIS

\* variant: the FITS axis number used as the numpy axis
to_canonicalFits(a, h) ==
  IF NeedsMove(h) THEN moveaxis(a, find_freq_axis(h) - 1, 0) ELSE a

\* the array returned for one cube
to_canonical(a, h) ==
  IF NeedsMove(h) THEN moveaxis(a, h.NAXIS - find_freq_axis(h), 0) ELSE a

\* np.moveaxis accepts the cube (the Q cube always has NAXIS axes, the U cube
\* comes from another file)
CanonicalOK(a, h) ==
  NeedsMove(h) => AxisOK(a, h.NAXIS - find_freq_axis(h), 0)

\* ------------------------------------------------- write_corrected_cubes
add_history(h, note) == [h EXCEPT !.HISTORY = Append(@, note)]

HistoryNote == "Corrected for ionospheric Faraday rotation using FRion."

\* variant: the FITS axis number used as the numpy axis
to_nativeFits(a, h) ==
  IF find_freq_axis(h) # 0
  THEN moveaxis(a, 0, find_freq_axis(h) - 1)
  ELSE a

\* lines 148-152 for one cube
to_native(a, h) ==
  IF find_freq_axis(h) # 0
  THEN moveaxis(a, 0, h.NAXIS - find_freq_axis(h))
  ELSE a

\* variant: the file is replaced whatever overwrite says
writetoClobber(files, name, data, h, ow) ==
  [files EXCEPT ![name] = [exists |-> TRUE, header |-> h, data |-> data]]

\* astropy.io.fits.writeto: refuses an existing file unless overwrite
WriteFails(files, name, ow) == files[name].exists /\ ~ow

writeto(files, name, data, h, ow) ==
  IF WriteFails(files, name, ow)
  THEN files
  ELSE [files EXCEPT ![name] = [exists |-> TRUE, header |-> h, data |-> data]]

\* ------------------------------------------------------------------ inputs
Shapes == UNION {[1..n -> 1..MaxSize] : n \in 1..MaxAxes}

\* a distinct number for every index tuple
RECURSIVE CodeFrom(_, _)
CodeFrom(idx, i) ==
  IF i > Len(idx) THEN 0
  ELSE idx[i] * (MaxSize + 1) ^ (i - 1) + CodeFrom(idx, i + 1)

Code(idx) == 1 + CodeFrom(idx, 1)

\* the cube of the given shape holding a * Code(idx) + b at idx
MkArray(shape, a, b) ==
  [shape |-> shape, data |-> [idx \in IdxSet(shape) |-> a * Code(idx) + b]]

Seeds == {0, 2}

ScanLabels ==
  {FREQ, <<"f", "r", "e", "q">>, <<"O", "B", "S", "F", "R", "E", "Q">>,
   <<"R", "A">>, <<"F", "R", "E">>}

PipeLabels == {<<"F", "r", "e", "q">>, <<"R", "A">>}

\* the headers with NAXIS = n whose CTYPE cards, present for some of the
\* numbers 1..m, are in labels
Headers(n, m, labels) ==
  {[NAXIS |-> n, CTYPE |-> c, HISTORY |-> <<>>] :
     c \in UNION {[D -> labels] : D \in SUBSET (1..m)}}

\* shapes a U cube can have next to a Q cube of shape s: the same, one axis
\* of another length, one axis fewer, one axis more
UShapes(s) ==
  {s}
  \cup {[s EXCEPT ![a] = (s[a] % MaxSize) + 1] : a \in 1..Len(s)}
  \cup (IF Len(s) > 1 THEN {Tail(s)} ELSE {})
  \cup {<<1>> \o s}

ThetaVals ==
  {[re |-> 1, im |-> 0], [re |-> 0, im |-> 1], [re |-> 0, im |-> 0],
   [re |-> -2, im |-> 1]}

PipeThetaVals == {[re |-> 1, im |-> 0], [re |-> 0, im |-> 1]}

\* for whole runs: cubes of fewer than MaxAxes axes, headers with a CTYPE card
\* for every axis or for none, predictions with one modulation in all rows
PipeShapes == {s \in Shapes : Len(s) < MaxAxes}

PipeHeaders(n) ==
  {h \in Headers(n, n, PipeLabels) : DOMAIN h.CTYPE \in {{}, 1..n}}

PipePredictions ==
  {[i \in 1..n |-> <<i, v.re, v.im>>] : n \in 1..MaxChan, v \in PipeThetaVals}

Paths == {"Qout.fits", "Uout.fits"}

NoFile == [exists |-> FALSE]

OldFile ==
  [exists |-> TRUE,
   header |-> [NAXIS |-> 1, CTYPE |-> <<>>, HISTORY |-> <<>>],
   data   |-> MkArray(<<1>>, 0, 0)]

NoArray == [shape |-> <<>>, data |-> <<>>]

NoHeader == [NAXIS |-> 0, CTYPE |-> <<>>, HISTORY |-> <<>>]

\* the locals before the first statement has run
LocalsInit ==
  /\ err = "none"
  /\ steps = <<>>
  /\ theta = <<>>
  /\ header = NoHeader
  /\ Qdata = NoArray
  /\ Udata = NoArray
  /\ Qcorr = NoArray
  /\ Ucorr = NoArray
  /\ output_header = NoHeader
  /\ freq_axis = 0

\* ------------------------------------------- apply_correction_to_files
\* variant: only the number of axes compared
ShapesDifferNdim(Q, U) == ndim(Q) # ndim(U)

\* the test of line 44
ShapesDiffer(Q, U) == Q.shape # U.shape

\* variant: the last axis compared
ChannelsDifferLast(Q, th) == Q.shape[ndim(Q)] # Len(th)

\* the test of line 46
ChannelsDiffer(Q, th) == Q.shape[1] # Len(th)

\* pc names the line of correct.py that runs next.
Init ==
  /\ pc = "L40"
  /\ LocalsInit
  /\ \E s \in PipeShapes :
       /\ \E h \in PipeHeaders(Len(s)) :
            Qfile = [header |-> h, data |-> MkArray(s, 1, 0)]
       /\ \E us \in UShapes(s) : Ufile = [data |-> MkArray(us, -1, 2)]
  /\ predictionfile \in PipePredictions
  /\ Qoutfile = "Qout.fits"
  /\ Uoutfile = "Uout.fits"
  /\ overwrite \in BOOLEAN
  /\ fs \in [Paths -> {NoFile, OldFile}]

Raise(e) ==
  /\ pc' = "error"
  /\ err' = e

\* line 40
ReadPrediction ==
  /\ pc = "L40"
  /\ theta' = read_prediction(predictionfile).theta
  /\ pc' = "L41"
  /\ steps' = Append(steps, "read_prediction")
  /\ UNCHANGED <<err, Qfile, Ufile, predictionfile, Qoutfile, Uoutfile,
                 overwrite, fs, header, Qdata, Udata, Qcorr, Ucorr,
                 output_header, freq_axis>>

\* line 41: readData, lines 110-128
ReadData ==
  /\ pc = "L41"
  /\ header' = Qfile.header
  /\ freq_axis' = find_freq_axis(Qfile.header)
  /\ IF CanonicalOK(Ufile.data, Qfile.header)
     THEN /\ Qdata' = to_canonical(Qfile.data, Qfile.header)
          /\ Udata' = to_canonical(Ufile.data, Qfile.header)
          /\ pc' = "L44"
          /\ err' = err
          /\ steps' = IF NeedsMove(Qfile.header)
                      THEN steps \o <<"readData", "moveaxis">>
                      ELSE Append(steps, "readData")
     ELSE /\ Qdata' = to_canonical(Qfile.data, Qfile.header)
          /\ Udata' = Ufile.data
          /\ Raise("AxisError")
          /\ steps' = steps \o <<"readData", "moveaxis">>
  /\ UNCHANGED <<Qfile, Ufile, predictionfile, Qoutfile, Uoutfile, overwrite,
                 fs, theta, Qcorr, Ucorr, output_header>>

\* lines 44-45
CheckShape ==
  /\ pc = "L44"
  /\ IF ShapesDiffer(Qdata, Udata)
     THEN Raise("Q and U files don't have same dimensions.")
     ELSE pc' = "L46" /\ err' = err
  /\ steps' = Append(steps, "check_shape")
  /\ UNCHANGED <<Qfile, Ufile, predictionfile, Qoutfile, Uoutfile, overwrite,
                 fs, theta, header, Qdata, Udata, Qcorr, Ucorr,
                 output_header, freq_axis>>

\* lines 46-47
CheckChannels ==
  /\ pc = "L46"
  /\ IF ChannelsDiffer(Qdata, theta)
     THEN Raise("Prediction file does not have same number of channels as FITS cube.")
     ELSE pc' = "L54" /\ err' = err
  /\ steps' = Append(steps, "check_channels")
  /\ UNCHANGED <<Qfile, Ufile, predictionfile, Qoutfile, Uoutfile, overwrite,
                 fs, theta, header, Qdata, Udata, Qcorr, Ucorr,
                 output_header, freq_axis>>

\* variant: the correction also runs before the channel count is validated
CorrectUnchecked ==
  /\ pc \in {"L46", "L54"}
  /\ IF DivideOK(Qdata, Udata, theta)
     THEN /\ Qcorr' = correct_cubes(Qdata, Udata, theta).Qcorr
          /\ Ucorr' = correct_cubes(Qdata, Udata, theta).Ucorr
          /\ pc' = "L144"
          /\ err' = err
     ELSE /\ Raise("ValueError")
          /\ UNCHANGED <<Qcorr, Ucorr>>
  /\ steps' = Append(steps, "correct_cubes")
  /\ UNCHANGED <<Qfile, Ufile, predictionfile, Qoutfile, Uoutfile, overwrite,
                 fs, theta, header, Qdata, Udata, output_header, freq_axis>>

\* line 54: correct_cubes, lines 174-182
Correct ==
  /\ pc = "L54"
  /\ IF DivideOK(Qdata, Udata, theta)
     THEN /\ Qcorr' = correct_cubes(Qdata, Udata, theta).Qcorr
          /\ Ucorr' = correct_cubes(Qdata, Udata, theta).Ucorr
          /\ pc' = "L144"
          /\ err' = err
     ELSE /\ Raise("ValueError")
          /\ UNCHANGED <<Qcorr, Ucorr>>
  /\ steps' = Append(steps, "correct_cubes")
  /\ UNCHANGED <<Qfile, Ufile, predictionfile, Qoutfile, Uoutfile, overwrite,
                 fs, theta, header, Qdata, Udata, output_header, freq_axis>>

\* np.moveaxis of lines 151-152 accepts the cube
NativeOK(a, h) ==
  find_freq_axis(h) # 0 => AxisOK(a, 0, h.NAXIS - find_freq_axis(h))

\* write_corrected_cubes lines 144-152 called on the cubes Qc, Uc
RestoreOf(Qc, Uc) ==
  LET oh == add_history(header, HistoryNote)
  IN  /\ output_header' = oh
      /\ freq_axis' = find_freq_axis(oh)
      /\ IF NativeOK(Qc, oh) /\ NativeOK(Uc, oh)
         THEN /\ Qcorr' = to_native(Qc, oh)
              /\ Ucorr' = to_native(Uc, oh)
              /\ pc' = "L155"
              /\ err' = err
         ELSE /\ Raise("AxisError")
              /\ Qcorr' = Qc
              /\ Ucorr' = Uc
      /\ steps' = IF find_freq_axis(oh) # 0
                  THEN steps \o <<"write_corrected_cubes", "moveaxis_back">>
                  ELSE Append(steps, "write_corrected_cubes")
      /\ UNCHANGED <<Qfile, Ufile, predictionfile, Qoutfile, Uoutfile,
                     overwrite, fs, theta, header, Qdata, Udata>>

\* line 57, entering write_corrected_cubes
Restore ==
  /\ pc = "L144"
  /\ RestoreOf(Qcorr, Ucorr)

\* variant: both output paths tested before the first write
WriteQAtomic ==
  /\ pc = "L155"
  /\ IF WriteFails(fs, Qoutfile, overwrite) \/ WriteFails(fs, Uoutfile, overwrite)
     THEN Raise("OSError") /\ steps' = steps /\ fs' = fs
     ELSE /\ pc' = "L156"
          /\ err' = err
          /\ steps' = Append(steps, "write_Q")
          /\ fs' = writeto(fs, Qoutfile, Qcorr, output_header, overwrite)
  /\ UNCHANGED <<Qfile, Ufile, predictionfile, Qoutfile, Uoutfile, overwrite,
                 theta, header, Qdata, Udata, Qcorr, Ucorr, output_header,
                 freq_axis>>

\* line 155
WriteQ ==
  /\ pc = "L155"
  /\ fs' = writeto(fs, Qoutfile, Qcorr, output_header, overwrite)
  /\ IF WriteFails(fs, Qoutfile, overwrite)
     THEN Raise("OSError") /\ steps' = steps
     ELSE pc' = "L156" /\ err' = err /\ steps' = Append(steps, "write_Q")
  /\ UNCHANGED <<Qfile, Ufile, predictionfile, Qoutfile, Uoutfile, overwrite,
                 theta, header, Qdata, Udata, Qcorr, Ucorr, output_header,
                 freq_axis>>

\* line 156
WriteU ==
  /\ pc = "L156"
  /\ fs' = writeto(fs, Uoutfile, Ucorr, output_header, overwrite)
  /\ IF WriteFails(fs, Uoutfile, overwrite)
     THEN Raise("OSError") /\ steps' = steps
     ELSE pc' = "done" /\ err' = err /\ steps' = Append(steps, "write_U")
  /\ UNCHANGED <<Qfile, Ufile, predictionfile, Qoutfile, Uoutfile, overwrite,
                 theta, header, Qdata, Udata, Qcorr, Ucorr, output_header,
                 freq_axis>>

Next ==
  \/ ReadPrediction
  \/ ReadData
  \/ CheckShape
  \/ CheckChannels
  \/ Correct
  \/ Restore
  \/ WriteQ
  \/ WriteU

Spec == Init /\ [][Next]_vars

\* ---------------------------------------------------- find_freq_axis alone
NoInputs ==
  /\ Qfile = [header |-> NoHeader, data |-> NoArray]
  /\ Ufile = [data |-> NoArray]
  /\ predictionfile = <<>>
  /\ Qoutfile = "Qout.fits"
  /\ Uoutfile = "Uout.fits"
  /\ overwrite = FALSE
  /\ fs = [p \in Paths |-> NoFile]

InitFind ==
  /\ pc = "L85"
  /\ err = "none"
  /\ steps = <<>>
  /\ theta = <<>>
  /\ \E n \in 1..MaxAxes : header \in Headers(n, n + 1, ScanLabels)
  /\ Qdata = NoArray
  /\ Udata = NoArray
  /\ Qcorr = NoArray
  /\ Ucorr = NoArray
  /\ output_header = NoHeader
  /\ freq_axis = 0
  /\ NoInputs

\* find_freq_axis(header), lines 85-96
FindFreqAxis ==
  /\ pc = "L85"
  /\ freq_axis' = find_freq_axis(header)
  /\ pc' = "return"
  /\ UNCHANGED <<err, steps, Qfile, Ufile, predictionfile, Qoutfile,
                 Uoutfile, overwrite, fs, theta, header, Qdata, Udata, Qcorr,
                 Ucorr, output_header>>

NextFind == FindFreqAxis

SpecFind == InitFind /\ [][NextFind]_vars

\* ------------------------------------- readData then write_corrected_cubes
\* the axis handling alone: the cubes returned by readData are handed to
\* lines 144-152 of write_corrected_cubes unchanged
InitAxes ==
  /\ pc = "L41"
  /\ LocalsInit
  /\ \E s \in Shapes :
       /\ \E h \in Headers(Len(s), Len(s), PipeLabels) :
            Qfile = [header |-> h, data |-> MkArray(s, 1, 0)]
       /\ \E us \in {x \in UShapes(s) : Len(x) = Len(s)} :
            Ufile = [data |-> MkArray(us, -1, 2)]
  /\ predictionfile = <<>>
  /\ Qoutfile = "Qout.fits"
  /\ Uoutfile = "Uout.fits"
  /\ overwrite = FALSE
  /\ fs = [p \in Paths |-> NoFile]

RestoreLoaded ==
  /\ pc = "L44"
  /\ RestoreOf(Qdata, Udata)

NextAxes ==
  \/ ReadData
  \/ RestoreLoaded

SpecAxes == InitAxes /\ [][NextAxes]_vars

\* ----------------------------------------------------- correct_cubes alone
InitCorrect ==
  /\ pc = "L54"
  /\ err = "none"
  /\ steps = <<>>
  /\ \E n \in 1..MaxChan : theta \in [1..n -> ThetaVals]
  /\ header = NoHeader
  /\ \E s \in Shapes : \E qs \in Seeds, us \in Seeds :
       /\ Qdata = MkArray(s, 1, -qs)
       /\ Udata = MkArray(s, -1, us)
  /\ Qcorr = NoArray
  /\ Ucorr = NoArray
  /\ output_header = NoHeader
  /\ freq_axis = 0
  /\ NoInputs

NextCorrect == Correct

SpecCorrect == InitCorrect /\ [][NextCorrect]_vars

\* ================================================================ claims
Range(f) == {f[i] : i \in DOMAIN f}

\* the label, upper-cased, reads F,R,E,Q at four consecutive positions
HasFreq(label) ==
  \E k \in 1..(Len(label) - 3) :
     \A j \in 1..4 : UpperChar(label[k + j - 1]) = FREQ[j]

\* the axes 1..NAXIS of h with a CTYPE card naming a frequency
FreqAxes(h) ==
  {i \in 1..h.NAXIS : i \in DOMAIN h.CTYPE /\ HasFreq(h.CTYPE[i])}

\* the highest-numbered frequency axis, 0 when there is none
DetectedAxis(h) ==
  IF FreqAxes(h) = {} THEN 0
  ELSE CHOOSE m \in FreqAxes(h) : \A x \in FreqAxes(h) : x <= m

\* s without its k-th entry
Without(s, k) == SubSeq(s, 1, k - 1) \o SubSeq(s, k + 1, Len(s))

\* C is the native cube A with its 0-based axis k moved to the front and the
\* other axes left in their relative order
FrontedAt(C, A, k) ==
  /\ C.shape = <<A.shape[k + 1]>> \o Without(A.shape, k + 1)
  /\ DOMAIN C.data = IdxSet(C.shape)
  /\ \A j \in IdxSet(A.shape) :
       C.data[<<j[k + 1]>> \o Without(j, k + 1)] = A.data[j]

\* C7 (SpecFind): find_freq_axis returns the highest-numbered axis among
\* 1..NAXIS whose CTYPE label upper-cased contains FREQ, and 0 when there is
\* none; axes without a CTYPE card are skipped and the scan goes on.
C7_FindFreqAxis ==
  pc = "return" => freq_axis = DetectedAxis(header)

\* a header with no CTYPE1, two frequency axes after it, the higher returned
C7_Witness ==
  /\ pc = "return"
  /\ 1 \notin DOMAIN header.CTYPE
  /\ Cardinality(FreqAxes(header)) >= 2
  /\ \E i \in FreqAxes(header) : i < freq_axis
  /\ freq_axis = header.NAXIS

\* C1 (SpecAxes): the reordering of readData followed by the reordering of
\* write_corrected_cubes gives back the cube in its original axis order, for
\* every detected frequency axis 0..NAXIS.
C1_RoundTrip ==
  pc = "L155" => Qcorr = Qfile.data /\ Ucorr = Ufile.data

\* a cube of three axes whose middle axis was moved to the front and back
C1_Witness ==
  /\ pc = "L155"
  /\ header.NAXIS >= 3
  /\ freq_axis = 2
  /\ Qdata # Qfile.data
  /\ Qcorr = Qfile.data

\* C8 (SpecAxes): with a frequency axis ax in 1..NAXIS detected, readData
\* returns Q and U with native array axis NAXIS-ax at position 0 and the
\* other axes after it in their native relative order.
C8_CanonicalLayout ==
  (pc = "L44" /\ freq_axis >= 1) =>
     /\ FrontedAt(Qdata, Qfile.data, header.NAXIS - freq_axis)
     /\ FrontedAt(Udata, Ufile.data, header.NAXIS - freq_axis)

\* the last native axis of a three-axis cube with distinct lengths moved
C8_Witness ==
  /\ pc = "L44"
  /\ header.NAXIS >= 3
  /\ freq_axis = 1
  /\ Qfile.data.shape[3] # Qfile.data.shape[1]
  /\ Qdata.shape[1] = Qfile.data.shape[3]
  /\ Udata.shape # Qdata.shape

\* the quotient q + i u, times the modulation t, is the input Q + i U
TimesBack(q, u, t, Q, U) ==
  /\ q.den > 0
  /\ u.den > 0
  /\ q.num * t.re * u.den - u.num * t.im * q.den = Q * q.den * u.den
  /\ q.num * t.im * u.den + u.num * t.re * q.den = U * q.den * u.den

\* C2 (SpecCorrect): for same-shape Q and U and len(theta) equal to the
\* length of axis 0, correct_cubes returns cubes of the shape of Q with
\* Qcorr + i Ucorr = (Q + i U) / theta[k] at every index (k, x...); a zero
\* modulation gives non-finite values in its channel.
C2_CorrectCubes ==
  (pc = "L144" /\ Len(theta) = Qdata.shape[1]) =>
     /\ Qcorr.shape = Qdata.shape
     /\ Ucorr.shape = Udata.shape
     /\ DOMAIN Qcorr.data = IdxSet(Qdata.shape)
     /\ DOMAIN Ucorr.data = IdxSet(Udata.shape)
     /\ \A idx \in IdxSet(Qdata.shape) :
          LET t == theta[idx[1] + 1]
          IN  IF t.re = 0 /\ t.im = 0
              THEN Qcorr.data[idx].den = 0 /\ Ucorr.data[idx].den = 0
              ELSE TimesBack(Qcorr.data[idx], Ucorr.data[idx], t,
                             Qdata.data[idx], Udata.data[idx])

\* two channels with different non-trivial modulations over a 2-D plane
C2_Witness ==
  /\ pc = "L144"
  /\ Len(theta) = 2
  /\ Qdata.shape[1] = 2
  /\ ndim(Qdata) = 3
  /\ Qdata.shape[3] = 2
  /\ theta[1] = [re |-> 0, im |-> 1]
  /\ theta[2] = [re |-> -2, im |-> 1]
  /\ \E idx \in IdxSet(Qdata.shape) : Qcorr.data[idx].den > 1

\* ------------------------------------------------ claims on the pipeline
ShapeMsg == "Q and U files don't have same dimensions."

ChannelMsg == "Prediction file does not have same number of channels as FITS cube."

\* no output path has been written by the run
Untouched(files) == \A p \in Paths : files[p] \in {NoFile, OldFile}

\* the file a successful write of data leaves
NewFile(data) ==
  [exists |-> TRUE,
   header |-> [Qfile.header EXCEPT !.HISTORY = Append(@, HistoryNote)],
   data   |-> data]

\* the length of the frequency axis of the Q cube as stored: native array
\* axis NAXIS-ax for a detected FITS axis ax, array axis 0 when none is found
FreqAxisLen ==
  LET h == Qfile.header
  IN  IF DetectedAxis(h) = 0 THEN Qfile.data.shape[1]
      ELSE Qfile.data.shape[h.NAXIS - DetectedAxis(h) + 1]

\* C3 (Spec): when the Q and U cubes differ in shape the run never gets
\* past the shape test, ends in an error, and writes no output path.
C3_ShapeMismatchRejected ==
  Qfile.data.shape # Ufile.data.shape =>
     /\ pc \in {"L40", "L41", "L44", "error"}
     /\ pc = "error" => err \in {ShapeMsg, "AxisError"}
     /\ Untouched(fs)

\* cubes of equal axis count and different lengths, rejected after the move
C3_Witness ==
  /\ pc = "error"
  /\ err = ShapeMsg
  /\ ndim(Qfile.data) = ndim(Ufile.data)
  /\ Qfile.data.shape # Ufile.data.shape
  /\ "moveaxis" \in Range(steps)
  /\ overwrite
  /\ Untouched(fs)

\* C4 (Spec): when the prediction has another number of channels than the
\* frequency axis of the cube is long, the run is rejected with an error
\* before correct_cubes is called and before any output path is written.
C4_ChannelMismatchRejected ==
  Len(predictionfile) # FreqAxisLen =>
     /\ pc \in {"L40", "L41", "L44", "L46", "error"}
     /\ "correct_cubes" \notin Range(steps)
     /\ pc = "error" => err \in {ShapeMsg, ChannelMsg, "AxisError"}
     /\ (pc = "error" /\ Qfile.data.shape = Ufile.data.shape) => err = ChannelMsg
     /\ Untouched(fs)

\* the stored first axis has as many entries as the prediction has rows, the
\* frequency axis does not
C4_Witness ==
  /\ pc = "error"
  /\ err = ChannelMsg
  /\ "moveaxis" \in Range(steps)
  /\ Qfile.data.shape[1] = Len(predictionfile)
  /\ FreqAxisLen # Len(predictionfile)
  /\ Untouched(fs)

\* C5 (Spec): a write to an existing path with overwrite false fails with an
\* error and leaves the file as it was; an existing file changes only when
\* overwrite is true.
C5_OverwriteGate ==
  [][ /\ \A p \in Paths : (fs[p].exists /\ fs'[p] # fs[p]) => overwrite
      /\ (pc = "L155" /\ fs[Qoutfile].exists /\ ~overwrite) =>
            (pc' = "error" /\ err' = "OSError" /\ fs' = fs)
      /\ (pc = "L156" /\ fs[Uoutfile].exists /\ ~overwrite) =>
            (pc' = "error" /\ err' = "OSError" /\ fs' = fs)
      /\ (pc = "L155" /\ fs[Qoutfile].exists /\ overwrite) =>
            fs'[Qoutfile] = NewFile(Qcorr)
    ]_vars

\* the Q write refused on an existing file that is still the old one
C5_Witness ==
  /\ pc = "error"
  /\ err = "OSError"
  /\ ~overwrite
  /\ "write_Q" \notin Range(steps)
  /\ fs[Qoutfile] = OldFile

AllOnes ==
  \A i \in DOMAIN predictionfile :
     predictionfile[i][2] = 1 /\ predictionfile[i][3] = 0

\* the cube a with every element v held as the exact value v/1
Exactly(a) ==
  [shape |-> a.shape,
   data  |-> [idx \in IdxSet(a.shape) |-> [num |-> a.data[idx], den |-> 1]]]

\* C6 (Spec): with a modulation of 1+0i in every channel the Q and U files
\* written hold the input Q and U data, in the input's axis order.
C6_Identity ==
  AllOnes =>
     /\ pc = "L156" =>
          (fs[Qoutfile].exists /\ fs[Qoutfile].data = Exactly(Qfile.data))
     /\ pc = "done" =>
          (fs[Uoutfile].exists /\ fs[Uoutfile].data = Exactly(Ufile.data))

\* a complete run on a cube whose frequency axis had to be moved
C6_Witness ==
  /\ pc = "done"
  /\ AllOnes
  /\ Len(predictionfile) = 2
  /\ "moveaxis" \in Range(steps)
  /\ Qoutfile # Uoutfile
  /\ fs[Qoutfile].data = Exactly(Qfile.data)

Rank(order, x) == CHOOSE k \in DOMAIN order : order[k] = x

\* the steps taken so far follow one another as in order
Increasing(order) ==
  \A i, j \in DOMAIN steps :
     i < j => Rank(order, steps[i]) < Rank(order, steps[j])

\* the order of steps as claimed: the axes are normalized after both tests
ClaimedOrder ==
  <<"read_prediction", "readData", "check_shape", "check_channels",
    "moveaxis", "correct_cubes", "write_corrected_cubes", "moveaxis_back",
    "write_Q", "write_U">>

\* the order of steps in the code: readData normalizes the axes
CodeOrder ==
  <<"read_prediction", "readData", "moveaxis", "check_shape",
    "check_channels", "correct_cubes", "write_corrected_cubes",
    "moveaxis_back", "write_Q", "write_U">>

\* the steps every complete run takes
Mandatory ==
  <<"read_prediction", "readData", "check_shape", "check_channels",
    "correct_cubes", "write_corrected_cubes", "write_Q", "write_U">>

IsMandatory(x) == x \in Range(Mandatory)

\* C9 as claimed (Spec): the steps run in the order load prediction, load
\* cubes, validate shapes, validate channel count, normalize axes, correct,
\* restore, persist - both validations before the axes are normalized.
C9_ClaimedOrder == Increasing(ClaimedOrder)

\* C9 as amended (Spec): the steps run in the order load prediction, load
\* cubes and normalize axes (inside readData), validate shapes, validate
\* channel count, correct, restore, persist Q, persist U, none left out; both
\* validations see the cubes with the frequency axis already first.
C9_CodeOrder ==
  /\ Increasing(CodeOrder)
  /\ LET done == SelectSeq(steps, IsMandatory)
     IN  /\ Len(done) <= Len(Mandatory)
         /\ done = SubSeq(Mandatory, 1, Len(done))
         /\ pc = "done" => done = Mandatory
  /\ (pc \in {"L44", "L46"} /\ freq_axis >= 1) =>
        FrontedAt(Qdata, Qfile.data, header.NAXIS - freq_axis)
  /\ "check_shape" \in Range(steps) =>
        (NeedsMove(Qfile.header) => "moveaxis" \in Range(steps))

\* a complete run that moved the frequency axis on load and back on save
C9_Witness ==
  /\ pc = "done"
  /\ "moveaxis" \in Range(steps)
  /\ "moveaxis_back" \in Range(steps)
  /\ steps[3] = "moveaxis"
  /\ steps[4] = "check_shape"

\* C10 (Spec): the Q output is written before the U output; a failed Q write
\* ends the run with no output path written; a failed U write ends the run
\* with the corrected Q written and the existing U file as it was.
C10_SequentialWrites ==
  /\ [](/\ "write_U" \in Range(steps) => "write_Q" \in Range(steps)
        /\ (pc = "error" /\ err = "OSError" /\ "write_Q" \notin Range(steps))
              => Untouched(fs)
        /\ (pc = "error" /\ err = "OSError" /\ "write_Q" \in Range(steps))
              => /\ fs[Qoutfile] = NewFile(Qcorr)
                 /\ "write_U" \notin Range(steps)
                 /\ Uoutfile # Qoutfile => fs[Uoutfile] = OldFile)
  /\ [][ /\ pc \notin {"error", "done"}
         /\ pc \notin {"L155", "L156"} => fs' = fs
         /\ pc = "L155" =>
              IF fs[Qoutfile].exists /\ ~overwrite
              THEN pc' = "error" /\ fs' = fs
              ELSE /\ pc' = "L156"
                   /\ fs' = [fs EXCEPT ![Qoutfile] = NewFile(Qcorr)]
         /\ pc = "L156" =>
              IF fs[Uoutfile].exists /\ ~overwrite
              THEN pc' = "error" /\ fs' = fs
              ELSE /\ pc' = "done"
                   /\ fs' = [fs EXCEPT ![Uoutfile] = NewFile(Ucorr)]
       ]_vars

\* only the U path existed: the run failed with exactly the Q output written
C10_Witness ==
  /\ pc = "error"
  /\ err = "OSError"
  /\ ~overwrite
  /\ Qoutfile # Uoutfile
  /\ fs[Qoutfile] = NewFile(Qcorr)
  /\ fs[Uoutfile] = OldFile

====
